---- MODULE Spec2Model ----
(***************************************************************************)
(* A model of pyparseJS: lexer.tokenize, parser.Parser and                 *)
(* transformer.transform_node, driven as main.main drives them             *)
(* (text -> tokens -> tree -> lines).                                      *)
(*                                                                         *)
(* Text is a TLA+ string; Len, \o and SubSeq act on it character by        *)
(* character.  An exception is a record held in exc; None is a record too, *)
(* so that every value compared by the model is a record, a string, a      *)
(* number or a sequence of these.                                          *)
(***************************************************************************)
EXTENDS Integers, Sequences, FiniteSets, TLC

VARIABLES code, tokens, pos, ast, out, exc, pc

vars == <<code, tokens, pos, ast, out, exc, pc>>

(***************************************************************************)
(* Python values                                                           *)
(***************************************************************************)
None == [type |-> "None"]

\* Token = namedtuple("Token", ["type", "value"])
Token(kind, value) == [type |-> kind, value |-> value]

\* s[i] for a 1-based index
Char(s, i) == SubSeq(s, i, i)

\* the code's slices s[a:b], 1-based and inclusive here
Slice(s, a, b) == SubSeq(s, a, b)

(***************************************************************************)
(* lexer.py                                                                *)
(***************************************************************************)
Digits == {"0", "1", "2", "3", "4", "5", "6", "7", "8", "9"}

Letters ==
    {"a", "b", "c", "d", "e", "f", "g", "h", "i", "j", "k", "l", "m",
     "n", "o", "p", "q", "r", "s", "t", "u", "v", "w", "x", "y", "z",
     "A", "B", "C", "D", "E", "F", "G", "H", "I", "J", "K", "L", "M",
     "N", "O", "P", "Q", "R", "S", "T", "U", "V", "W", "X", "Y", "Z", "_"}

\* \w
WordChars == Letters \cup Digits

\* [+\-*/=<>!]
OpChars == {"+", "-", "*", "/", "=", "<", ">", "!"}

\* [{}\[\]().,;:]
PunctChars == {"{", "}", "[", "]", "(", ")", ".", ",", ";", ":"}

\* [ \t]
SkipChars == {" ", "\t"}

\* the last index j >= i - 1 such that s[i..j] lies in the class: a greedy X*
RECURSIVE RunEnd(_, _, _)
RunEnd(s, i, class) ==
    IF i <= Len(s) /\ Char(s, i) \in class THEN RunEnd(s, i + 1, class) ELSE i - 1

\* the first index k >= i with s[k] = q, or 0 when there is none
RECURSIVE FindChar(_, _, _)
FindChar(s, i, q) ==
    IF i > Len(s) THEN 0
    ELSE IF Char(s, i) = q THEN i
    ELSE FindChar(s, i + 1, q)

\* \d+(\.\d+)? at i, which holds a digit: the index of the match's last character
NumberEnd(s, i) ==
    LET j == RunEnd(s, i, Digits)
    IN  IF j + 2 <= Len(s) /\ Char(s, j + 1) = "." /\ Char(s, j + 2) \in Digits
        THEN RunEnd(s, j + 2, Digits)
        ELSE j

\* "[^"]*"|'[^']*' at i: the index of the closing quote, or 0 when unmatched
StringEnd(s, i) ==
    IF Char(s, i) \in {"\"", "'"} THEN FindChar(s, i + 1, Char(s, i)) ELSE 0

\* One try of master_pat at position i, the alternatives in token_spec's
\* order: [kind, last] of the match, or kind "NOMATCH" when no category
\* matches at i.
MatchAt(s, i) ==
    LET c == Char(s, i)
    IN  IF c \in Digits THEN [kind |-> "NUMBER", last |-> NumberEnd(s, i)]
        ELSE IF StringEnd(s, i) # 0 THEN [kind |-> "STRING", last |-> StringEnd(s, i)]
        ELSE IF c \in Letters THEN [kind |-> "ID", last |-> RunEnd(s, i, WordChars)]
        ELSE IF c \in OpChars THEN [kind |-> "OP", last |-> RunEnd(s, i, OpChars)]
        ELSE IF c = "." THEN [kind |-> "DOT", last |-> i]
        ELSE IF c \in PunctChars THEN [kind |-> "PUNCT", last |-> i]
        ELSE IF c \in SkipChars THEN [kind |-> "SKIP", last |-> RunEnd(s, i, SkipChars)]
        ELSE IF c = "\n" THEN [kind |-> "NEWLINE", last |-> i]
        ELSE [kind |-> "NOMATCH", last |-> i]

\* the escapes of unicode_escape that the model decodes
EscapeOf(e) ==
    CASE e = "n" -> "\n"
      [] e = "t" -> "\t"
      [] e = "r" -> "\r"
      [] e = "f" -> "\f"
      [] e = "\\" -> "\\"
      [] e = "\"" -> "\""
      [] e = "'" -> "'"
      [] e = "\n" -> ""
      [] OTHER -> "\\" \o e

\* escapes whose value has no TLA+ spelling (\a \b \v, octal, \x \u \U \N)
EscapeUnmodelled == {"a", "b", "v", "x", "u", "U", "N"} \cup Digits

\* bytes.decode("unicode_escape") of the text from i on: [ok, text]; a
\* backslash that ends the text is a UnicodeDecodeError
RECURSIVE UnicodeEscape(_, _)
UnicodeEscape(s, i) ==
    IF i > Len(s) THEN [ok |-> TRUE, text |-> ""]
    ELSE IF Char(s, i) # "\\"
    THEN LET r == UnicodeEscape(s, i + 1)
         IN  [ok |-> r.ok, text |-> Char(s, i) \o r.text]
    ELSE IF i = Len(s) \/ Char(s, i + 1) \in EscapeUnmodelled
    THEN [ok |-> FALSE, text |-> ""]
    ELSE LET r == UnicodeEscape(s, i + 2)
         IN  [ok |-> r.ok, text |-> EscapeOf(Char(s, i + 1)) \o r.text]

\* the loop of tokenize over master_pat.finditer(code), from position i:
\* [ok, tokens]. finditer moves on by one character where nothing matches.
RECURSIVE TokenizeFrom(_, _)
TokenizeFrom(s, i) ==
    IF i > Len(s) THEN [ok |-> TRUE, tokens |-> <<>>]
    ELSE
      LET m == MatchAt(s, i)
          rest == TokenizeFrom(s, m.last + 1)
          value == Slice(s, i, m.last)
          decoded == UnicodeEscape(Slice(value, 2, Len(value) - 1), 1)
      IN  IF m.kind \in {"NOMATCH", "SKIP"} THEN rest
          ELSE IF m.kind = "STRING"
          THEN IF decoded.ok
               THEN [ok |-> rest.ok, tokens |-> <<Token("STRING", decoded.text)>> \o rest.tokens]
               ELSE [ok |-> FALSE, tokens |-> <<>>]
          ELSE [ok |-> rest.ok, tokens |-> <<Token(m.kind, value)>> \o rest.tokens]

tokenize(s) == TokenizeFrom(s, 1)

(***************************************************************************)
(* parser.py: the syntax tree                                              *)
(***************************************************************************)
NumberLiteral(value) == [type |-> "NumberLiteral", value |-> value]

StringLiteral(value) == [type |-> "StringLiteral", value |-> value]

Identifier(name) == [type |-> "Identifier", name |-> name]

BinaryOp(left, op, right) ==
    [type |-> "BinaryOp", left |-> left, op |-> op, right |-> right]

VariableDeclaration(kind, name, value) ==
    [type |-> "VariableDeclaration", kind |-> kind, name |-> name, value |-> value]

PrintStatement(value) == [type |-> "PrintStatement", value |-> value]

FunctionDeclaration(name, params, body) ==
    [type |-> "FunctionDeclaration", name |-> name, params |-> params, body |-> body]

CallExpression(callee, arguments) ==
    [type |-> "CallExpression", callee |-> callee, arguments |-> arguments]

ReturnStatement(argument) == [type |-> "ReturnStatement", argument |-> argument]

\* alternate is None or SomeList(statements): list[any] | None
SomeList(items) == [type |-> "list", items |-> items]

IfStatement(test, consequent, alternate) ==
    [type |-> "IfStatement", test |-> test, consequent |-> consequent,
     alternate |-> alternate]

WhileStatement(test, body) == [type |-> "WhileStatement", test |-> test, body |-> body]

Assignment(left, right) == [type |-> "Assignment", left |-> left, right |-> right]

(***************************************************************************)
(* float(text) of a NUMBER token and str(float).  A float is kept as its   *)
(* integer part and its fraction digits without trailing zeros, which is   *)
(* what repr prints for the short decimals the model feeds it.             *)
(***************************************************************************)
DigitVal(c) ==
    CASE c = "0" -> 0 [] c = "1" -> 1 [] c = "2" -> 2 [] c = "3" -> 3 [] c = "4" -> 4
      [] c = "5" -> 5 [] c = "6" -> 6 [] c = "7" -> 7 [] c = "8" -> 8 [] c = "9" -> 9

DigitChar(d) ==
    CASE d = 0 -> "0" [] d = 1 -> "1" [] d = 2 -> "2" [] d = 3 -> "3" [] d = 4 -> "4"
      [] d = 5 -> "5" [] d = 6 -> "6" [] d = 7 -> "7" [] d = 8 -> "8" [] d = 9 -> "9"

RECURSIVE StrToNat(_)
StrToNat(s) ==
    IF s = "" THEN 0
    ELSE 10 * StrToNat(Slice(s, 1, Len(s) - 1)) + DigitVal(Char(s, Len(s)))

RECURSIVE NatToStr(_)
NatToStr(n) == IF n < 10 THEN DigitChar(n) ELSE NatToStr(n \div 10) \o DigitChar(n % 10)

RECURSIVE StripZeros(_)
StripZeros(s) ==
    IF s # "" /\ Char(s, Len(s)) = "0" THEN StripZeros(Slice(s, 1, Len(s) - 1)) ELSE s

float(text) ==
    LET dot == FindChar(text, 1, ".")
    IN  IF dot = 0 THEN [int |-> StrToNat(text), frac |-> ""]
        ELSE [int |-> StrToNat(Slice(text, 1, dot - 1)),
              frac |-> StripZeros(Slice(text, dot + 1, Len(text)))]

\* str(node.value) of a float
FloatStr(v) == NatToStr(v.int) \o "." \o (IF v.frac = "" THEN "0" ELSE v.frac)

(***************************************************************************)
(* parser.py: class Parser.  A method is an operator of the token list and *)
(* the cursor it is called at; it yields [pos, val, exc]: the cursor it    *)
(* leaves, the value it returns, and the exception it raises (None when it *)
(* returns).                                                               *)
(***************************************************************************)
Ok(p, v) == [pos |-> p, val |-> v, exc |-> None]

Raise(p, e) == [pos |-> p, val |-> None, exc |-> e]

\* SyntaxError(f"Expected token {type_} {value}, got {self.current()}") and the
\* parser's other messages, which name no token
SyntaxError(msg, want, got) ==
    [type |-> "SyntaxError", msg |-> msg, want |-> want, got |-> got]

\* A loop whose condition reads only the cursor and whose body returns with
\* the cursor where it was runs for ever.
NonTermination == [type |-> "NonTermination"]

current(toks, p) == IF p < Len(toks) THEN toks[p + 1] ELSE None

match(toks, p, types) ==
    LET token == current(toks, p)
    IN  IF token # None /\ token.type \in types THEN Ok(p + 1, token) ELSE Ok(p, None)

\* value = "" stands for the default value=None: `value and ...` treats both alike
expect(toks, p, type_, value) ==
    LET m == match(toks, p, {type_})
    IN  IF m.val = None \/ (value # "" /\ m.val.value # value)
        THEN Raise(m.pos, SyntaxError("Expected token", Token(type_, value),
                                      current(toks, m.pos)))
        ELSE m

RECURSIVE skip_newlines(_, _)
skip_newlines(toks, p) ==
    IF current(toks, p) # None /\ current(toks, p).type = "NEWLINE"
    THEN skip_newlines(toks, p + 1)
    ELSE p

\* self.current() and self.current().type == kind and self.current().value == value
At(toks, p, kind, value) ==
    /\ current(toks, p) # None
    /\ current(toks, p).type = kind
    /\ current(toks, p).value = value

\* `r = self.method(...)` followed by the rest of the caller: an exception
\* raised by the method leaves the caller at once, otherwise the caller goes
\* on with what the method returned and the cursor it left
Then(r, rest(_)) == IF r.exc # None THEN r ELSE rest(r)

RECURSIVE parse_statement(_, _), parse_expression(_, _), parse_assignment(_, _),
          parse_term(_, _)

(***************************************************************************)
(* Expressions                                                             *)
(***************************************************************************)
\* the argument loop of a call in parse_atom, the cursor behind '(' or behind
\* an argument: while self.current() and not ')'
RECURSIVE call_arguments(_, _, _)
call_arguments(toks, p, args) ==
    IF current(toks, p) # None /\ ~At(toks, p, "PUNCT", ")")
    THEN Then(parse_expression(toks, p), LAMBDA r:
         IF r.pos = p THEN Raise(p, NonTermination)
         ELSE call_arguments(toks,
                  IF At(toks, r.pos, "PUNCT", ",") THEN r.pos + 1 ELSE r.pos,
                  Append(args, r.val)))
    ELSE Ok(p, args)

parse_atom(toks, p) ==
    LET token == current(toks, p)
    IN  IF token = None
        THEN Raise(p, SyntaxError("Unexpected end of input", None, None))
        ELSE IF token.type = "NUMBER" THEN Ok(p + 1, NumberLiteral(float(token.value)))
        ELSE IF token.type = "STRING" THEN Ok(p + 1, StringLiteral(token.value))
        ELSE IF token.type = "ID"
        THEN IF At(toks, p + 1, "PUNCT", "(")
             THEN Then(call_arguments(toks, p + 2, <<>>), LAMBDA args:
                  Then(expect(toks, args.pos, "PUNCT", ")"), LAMBDA rpar:
                  Ok(rpar.pos, CallExpression(Identifier(token.value), args.val))))
             ELSE Ok(p + 1, Identifier(token.value))
        ELSE IF token.type = "PUNCT" /\ token.value = "("
        THEN Then(parse_expression(toks, p + 1), LAMBDA expr:
             Then(expect(toks, expr.pos, "PUNCT", ")"), LAMBDA rpar:
             Ok(rpar.pos, expr.val)))
        ELSE Raise(p, SyntaxError("Unexpected token", None, token))

\* self.current() and self.current().type == 'OP' and self.current().value in ops
AtOp(toks, p, ops) ==
    /\ current(toks, p) # None
    /\ current(toks, p).type = "OP"
    /\ current(toks, p).value \in ops

\* the while loop of parse_factor: node is the left operand so far, the
\* cursor is behind it (term_loop, comparison_loop, equality_loop alike)
RECURSIVE factor_loop(_, _, _)
factor_loop(toks, p, node) ==
    IF AtOp(toks, p, {"*", "/"})
    THEN Then(match(toks, p, {"OP"}), LAMBDA op:
         Then(parse_atom(toks, op.pos), LAMBDA right:
         factor_loop(toks, right.pos, BinaryOp(node, op.val.value, right.val))))
    ELSE Ok(p, node)

parse_factor(toks, p) ==
    Then(parse_atom(toks, p), LAMBDA node: factor_loop(toks, node.pos, node.val))

\* term_loop with the right operand parsed as a whole term: '-' and '+' group
\* to the right
term_loop_right_associative(toks, p, node) ==
    IF AtOp(toks, p, {"+", "-"})
    THEN Then(match(toks, p, {"OP"}), LAMBDA op:
         Then(parse_term(toks, op.pos), LAMBDA right:
         Ok(right.pos, BinaryOp(node, op.val.value, right.val))))
    ELSE Ok(p, node)

RECURSIVE term_loop(_, _, _)
term_loop(toks, p, node) ==
    IF AtOp(toks, p, {"+", "-"})
    THEN Then(match(toks, p, {"OP"}), LAMBDA op:
         Then(parse_factor(toks, op.pos), LAMBDA right:
         term_loop(toks, right.pos, BinaryOp(node, op.val.value, right.val))))
    ELSE Ok(p, node)

parse_term(toks, p) ==
    Then(parse_factor(toks, p), LAMBDA node: term_loop(toks, node.pos, node.val))

RECURSIVE comparison_loop(_, _, _)
comparison_loop(toks, p, node) ==
    IF AtOp(toks, p, {"<", ">", "<=", ">="})
    THEN Then(match(toks, p, {"OP"}), LAMBDA op:
         Then(parse_term(toks, op.pos), LAMBDA right:
         comparison_loop(toks, right.pos, BinaryOp(node, op.val.value, right.val))))
    ELSE Ok(p, node)

parse_comparison(toks, p) ==
    Then(parse_term(toks, p), LAMBDA node: comparison_loop(toks, node.pos, node.val))

RECURSIVE equality_loop(_, _, _)
equality_loop(toks, p, node) ==
    IF AtOp(toks, p, {"==", "!="})
    THEN Then(match(toks, p, {"OP"}), LAMBDA op:
         Then(parse_comparison(toks, op.pos), LAMBDA right:
         equality_loop(toks, right.pos, BinaryOp(node, op.val.value, right.val))))
    ELSE Ok(p, node)

parse_equality(toks, p) ==
    Then(parse_comparison(toks, p), LAMBDA node: equality_loop(toks, node.pos, node.val))

\* parse_assignment without the check of the target
parse_assignment_any_target(toks, p) ==
    Then(parse_equality(toks, p), LAMBDA node:
    IF At(toks, node.pos, "OP", "=")
    THEN Then(match(toks, node.pos, {"OP"}), LAMBDA op:
         Then(parse_assignment(toks, op.pos), LAMBDA right:
         Ok(right.pos, Assignment(node.val, right.val))))
    ELSE node)

parse_assignment(toks, p) ==
    Then(parse_equality(toks, p), LAMBDA node:
    IF At(toks, node.pos, "OP", "=")
    THEN Then(match(toks, node.pos, {"OP"}), LAMBDA op:
         Then(parse_assignment(toks, op.pos), LAMBDA right:
         IF node.val.type # "Identifier"
         THEN Raise(right.pos, SyntaxError("Invalid assignment target", None, None))
         ELSE Ok(right.pos, Assignment(node.val, right.val))))
    ELSE node)

parse_expression(toks, p) == parse_assignment(toks, p)

(***************************************************************************)
(* Statements                                                              *)
(***************************************************************************)
\* the cursor is behind the keyword: kind_token = self.tokens[self.pos - 1]
parse_variable_declaration(toks, p) ==
    Then(expect(toks, p, "ID", ""), LAMBDA name_token:
    Then(expect(toks, name_token.pos, "OP", "="), LAMBDA eq:
    Then(parse_expression(toks, eq.pos), LAMBDA expr:
    Ok(expr.pos, VariableDeclaration(toks[p].value, name_token.val.value, expr.val)))))

\* the while True loop over the parameters, the cursor behind '('
RECURSIVE function_parameters(_, _, _)
function_parameters(toks, p, params) ==
    LET tok == current(toks, p)
    IN  IF tok = None
        THEN Raise(p, SyntaxError("Unexpected end of input in function parameters",
                                  None, None))
        ELSE IF tok.type = "PUNCT" /\ tok.value = ")" THEN Ok(p + 1, params)
        ELSE IF tok.type = "ID"
        THEN function_parameters(toks,
                 IF At(toks, p + 1, "PUNCT", ",") THEN p + 2 ELSE p + 1,
                 Append(params, tok.value))
        ELSE Raise(p, SyntaxError("Invalid function parameter list", None, None))

\* body.append(stmt) under `if stmt is not None` (parse: `if stmt`)
Appended(block, stmt) == IF stmt # None THEN Append(block, stmt) ELSE block

\* the body loop of parse_function_declaration
RECURSIVE function_body(_, _, _)
function_body(toks, p, body) ==
    IF current(toks, p) # None /\ ~At(toks, p, "PUNCT", "}")
    THEN IF At(toks, skip_newlines(toks, p), "PUNCT", "}")
         THEN Ok(skip_newlines(toks, p), body)
         ELSE Then(parse_statement(toks, skip_newlines(toks, p)), LAMBDA stmt:
              IF skip_newlines(toks, stmt.pos) = p THEN Raise(p, NonTermination)
              ELSE function_body(toks, skip_newlines(toks, stmt.pos),
                                 Appended(body, stmt.val)))
    ELSE Ok(p, body)

parse_function_declaration(toks, p) ==
    Then(expect(toks, p, "ID", ""), LAMBDA name_token:
    Then(expect(toks, name_token.pos, "PUNCT", "("), LAMBDA lpar:
    Then(function_parameters(toks, lpar.pos, <<>>), LAMBDA params:
    Then(expect(toks, params.pos, "PUNCT", "{"), LAMBDA lbrace:
    Then(function_body(toks, skip_newlines(toks, lbrace.pos), <<>>), LAMBDA body:
    Then(expect(toks, body.pos, "PUNCT", "}"), LAMBDA rbrace:
    Ok(rbrace.pos,
       FunctionDeclaration(name_token.val.value, params.val, body.val))))))))

parse_return_statement(toks, p) ==
    Then(expect(toks, p, "ID", "return"), LAMBDA kw:
    Then(parse_expression(toks, kw.pos), LAMBDA expr:
    Ok(expr.pos, ReturnStatement(expr.val))))

\* the block loop of parse_if_statement (consequent and alternate) and of
\* parse_while_statement: while self.current() and not '}'
RECURSIVE block_statements(_, _, _)
block_statements(toks, p, block) ==
    IF current(toks, p) # None /\ ~At(toks, p, "PUNCT", "}")
    THEN Then(parse_statement(toks, p), LAMBDA stmt:
         IF stmt.pos = p THEN Raise(p, NonTermination)
         ELSE block_statements(toks, stmt.pos, Appended(block, stmt.val)))
    ELSE Ok(p, block)

\* '{' block '}' : the braces around a block of if, else and while
braced_block(toks, p) ==
    Then(expect(toks, p, "PUNCT", "{"), LAMBDA lbrace:
    Then(block_statements(toks, lbrace.pos, <<>>), LAMBDA block:
    Then(expect(toks, block.pos, "PUNCT", "}"), LAMBDA rbrace:
    Ok(rbrace.pos, block.val))))

\* the else part of parse_if_statement, the cursor behind the consequent's '}'
parse_alternate(toks, p) ==
    IF At(toks, p, "ID", "else")
    THEN Then(expect(toks, p, "ID", "else"), LAMBDA kw:
         Then(braced_block(toks, kw.pos), LAMBDA alternate:
         Ok(alternate.pos, SomeList(alternate.val))))
    ELSE Ok(p, None)

parse_if_statement(toks, p) ==
    Then(expect(toks, p, "ID", "if"), LAMBDA kw:
    Then(expect(toks, kw.pos, "PUNCT", "("), LAMBDA lpar:
    Then(parse_expression(toks, lpar.pos), LAMBDA test:
    Then(expect(toks, test.pos, "PUNCT", ")"), LAMBDA rpar:
    Then(braced_block(toks, rpar.pos), LAMBDA consequent:
    Then(parse_alternate(toks, consequent.pos), LAMBDA alternate:
    Ok(alternate.pos, IfStatement(test.val, consequent.val, alternate.val))))))))

parse_while_statement(toks, p) ==
    Then(expect(toks, p, "ID", "while"), LAMBDA kw:
    Then(expect(toks, kw.pos, "PUNCT", "("), LAMBDA lpar:
    Then(parse_expression(toks, lpar.pos), LAMBDA test:
    Then(expect(toks, test.pos, "PUNCT", ")"), LAMBDA rpar:
    Then(braced_block(toks, rpar.pos), LAMBDA body:
    Ok(body.pos, WhileStatement(test.val, body.val)))))))

\* the loop over the further arguments of console.log: while ','
RECURSIVE console_more_arguments(_, _, _)
console_more_arguments(toks, p, args) ==
    IF At(toks, p, "PUNCT", ",")
    THEN Then(parse_expression(toks, p + 1), LAMBDA r:
         console_more_arguments(toks, r.pos, Append(args, r.val)))
    ELSE Ok(p, args)

\* the arguments of console.log, the cursor behind '('
console_arguments(toks, p) ==
    IF current(toks, p) # None /\ ~At(toks, p, "PUNCT", ")")
    THEN Then(parse_expression(toks, p), LAMBDA first:
         console_more_arguments(toks, first.pos, <<first.val>>))
    ELSE Ok(p, <<>>)

parse_console_log(toks, p) ==
    Then(expect(toks, p, "ID", "console"), LAMBDA kw:
    Then(expect(toks, kw.pos, "DOT", ""), LAMBDA dot:
    Then(expect(toks, dot.pos, "ID", ""), LAMBDA log_id:
    IF log_id.val.value # "log"
    THEN Raise(log_id.pos, SyntaxError("Expected 'log' after 'console.'", None, None))
    ELSE Then(expect(toks, log_id.pos, "PUNCT", "("), LAMBDA lpar:
         Then(console_arguments(toks, lpar.pos), LAMBDA args:
         Then(expect(toks, args.pos, "PUNCT", ")"), LAMBDA rpar:
         Then(expect(toks, rpar.pos, "PUNCT", ";"), LAMBDA semi:
         Ok(semi.pos, PrintStatement(args.val)))))))))

\* stmt = ...; self.expect('PUNCT', ';'); return stmt
Terminated(toks, r) ==
    Then(r, LAMBDA stmt:
    Then(expect(toks, stmt.pos, "PUNCT", ";"), LAMBDA semi:
    Ok(semi.pos, stmt.val)))

parse_statement(toks, p0) ==
    LET p == skip_newlines(toks, p0)
        tok == current(toks, p)
    IN  IF tok = None THEN Ok(p, None)
        ELSE IF tok.type = "PUNCT" /\ tok.value = "}" THEN Ok(p, None)
        ELSE IF tok.type = "ID" /\ tok.value \in {"let", "const", "var"}
        THEN Terminated(toks, parse_variable_declaration(toks, match(toks, p, {"ID"}).pos))
        ELSE IF tok.type = "ID" /\ tok.value = "function"
        THEN parse_function_declaration(toks, match(toks, p, {"ID"}).pos)
        ELSE IF tok.type = "ID" /\ tok.value = "return"
        THEN Terminated(toks, parse_return_statement(toks, p))
        ELSE IF tok.type = "ID" /\ tok.value = "if" THEN parse_if_statement(toks, p)
        ELSE IF tok.type = "ID" /\ tok.value = "while" THEN parse_while_statement(toks, p)
        ELSE IF tok.type = "ID" /\ tok.value = "console" THEN parse_console_log(toks, p)
        ELSE Terminated(toks, parse_expression(toks, p))

RECURSIVE parse_loop(_, _, _)

\* parse_loop without the break at a block-closing '}'
parse_loop_without_break(toks, p, statements) ==
    IF current(toks, p) # None
    THEN Then(parse_statement(toks, skip_newlines(toks, p)), LAMBDA stmt:
         IF stmt.pos = p THEN Raise(p, NonTermination)
         ELSE parse_loop(toks, stmt.pos, Appended(statements, stmt.val)))
    ELSE Ok(p, statements)

\* the loop of Parser.parse: while self.current()
parse_loop(toks, p, statements) ==
    IF current(toks, p) # None
    THEN IF At(toks, skip_newlines(toks, p), "PUNCT", "}")
         THEN Ok(skip_newlines(toks, p), statements)
         ELSE Then(parse_statement(toks, skip_newlines(toks, p)), LAMBDA stmt:
              IF stmt.pos = p THEN Raise(p, NonTermination)
              ELSE parse_loop(toks, stmt.pos, Appended(statements, stmt.val)))
    ELSE Ok(p, statements)

\* Parser(tokens).parse(): the cursor starts at 0
parse(toks) == parse_loop(toks, 0, <<>>)

(***************************************************************************)
(* transformer.py                                                          *)
(***************************************************************************)
\* sep.join(items) for a list of strings
RECURSIVE Join(_, _)
Join(sep, items) ==
    IF items = <<>> THEN ""
    ELSE IF Len(items) = 1 THEN items[1]
    ELSE items[1] \o sep \o Join(sep, Tail(items))

\* value.replace(old, new) for a one-character old
RECURSIVE Replace(_, _, _)
Replace(s, old, new) ==
    IF s = "" THEN ""
    ELSE (IF Char(s, 1) = old THEN new ELSE Char(s, 1))
         \o Replace(Slice(s, 2, Len(s)), old, new)

\* ["    " + line for line in lines]
Indented(lines) == [i \in 1..Len(lines) |-> "    " \o lines[i]]

\* BlockText without the placeholder of an empty block
BlockTextWithoutPass(rendered) == Join("\n", Indented(rendered))

\* the text of a block: "\n".join of the indented renderings, or '    pass'
\* when that text is empty
BlockText(rendered) ==
    LET body == Join("\n", Indented(rendered))
    IN  IF body # "" THEN body ELSE "    pass"

RECURSIVE transform_node(_)
\* [transform_node(stmt) for stmt in nodes]
TransformAll(nodes) == [i \in 1..Len(nodes) |-> transform_node(nodes[i])]

\* an unknown node is a TypeError: the CASE has no arm for it
transform_node(node) ==
    CASE node.type = "NumberLiteral" -> FloatStr(node.value)
      [] node.type = "StringLiteral" -> "\"" \o Replace(node.value, "\"", "\\\"") \o "\""
      [] node.type = "Identifier" -> node.name
      [] node.type = "BinaryOp" ->
            "(" \o transform_node(node.left) \o " " \o node.op \o " "
                \o transform_node(node.right) \o ")"
      [] node.type = "VariableDeclaration" ->
            node.name \o " = " \o transform_node(node.value)
      [] node.type = "Assignment" ->
            transform_node(node.left) \o " = " \o transform_node(node.right)
      [] node.type = "PrintStatement" ->
            "print(" \o Join(", ", TransformAll(node.value)) \o ")"
      [] node.type = "FunctionDeclaration" ->
            "def " \o node.name \o "(" \o Join(", ", node.params) \o "):\n"
                \o BlockText(TransformAll(node.body))
      [] node.type = "CallExpression" ->
            transform_node(node.callee) \o "("
                \o Join(", ", TransformAll(node.arguments)) \o ")"
      [] node.type = "ReturnStatement" -> "return " \o transform_node(node.argument)
      [] node.type = "IfStatement" ->
            "if " \o transform_node(node.test) \o ":\n"
                \o BlockText(TransformAll(node.consequent))
                \o (IF node.alternate # None
                    THEN "\nelse:\n" \o BlockText(TransformAll(node.alternate.items))
                    ELSE "")
      [] node.type = "WhileStatement" ->
            "while " \o transform_node(node.test) \o ":\n"
                \o BlockText(TransformAll(node.body))

(***************************************************************************)
(* main.py: main(js_code), one action per stage.  generate_code is not     *)
(* part of the sources; the run ends with python_lines in out.             *)
(***************************************************************************)
\* tokens = tokenize(js_code)
Tokenize ==
    /\ pc = "start"
    /\ LET r == tokenize(code)
       IN  IF r.ok
           THEN /\ tokens' = r.tokens
                /\ pc' = "lexed"
                /\ exc' = exc
           ELSE /\ tokens' = tokens
                /\ pc' = "failed"
                /\ exc' = [type |-> "UnicodeDecodeError"]
    /\ UNCHANGED <<code, pos, ast, out>>

\* parser = Parser(tokens); ast = parser.parse()
Parse ==
    /\ pc = "lexed"
    /\ LET r == parse(tokens)
       IN  /\ pos' = r.pos
           /\ exc' = r.exc
           /\ ast' = IF r.exc = None THEN r.val ELSE ast
           /\ pc' = IF r.exc = None THEN "parsed"
                    ELSE IF r.exc = NonTermination THEN "diverged"
                    ELSE "failed"
    /\ UNCHANGED <<code, tokens, out>>

\* python_lines = [transform_node(node) for node in ast]
Transform ==
    /\ pc = "parsed"
    /\ out' = TransformAll(ast)
    /\ pc' = "done"
    /\ UNCHANGED <<code, tokens, pos, ast, exc>>

Next == Tokenize \/ Parse \/ Transform

(***************************************************************************)
(* Inputs.  Every specification starts main on one text of a bounded       *)
(* family and runs the three stages.                                       *)
(***************************************************************************)
\* the longest tail of lexemes behind a context
MaxTail == 3

\* the most fragments of a text of the lexer's family
MaxLexLen == 4

\* the most binary operators of an expression of the expression family
MaxOps == 2

\* the deepest nesting of blocks in a tree of the transformer's family
MaxDepth == 2

\* the most statements of a block in a tree of the transformer's family
MaxBlock == 2

SeqsUpTo(S, n) == UNION {[1..k -> S] : k \in 0..n}

Started(texts) ==
    /\ code \in texts
    /\ tokens = <<>>
    /\ pos = 0
    /\ ast = <<>>
    /\ out = <<>>
    /\ exc = None
    /\ pc = "start"

\* Statements: a context that leaves the parser inside one of its loops (the
\* top level, a parameter list, a function, if, else or while block, the
\* arguments of a call or of console.log, an operator chain, a declaration),
\* then every tail of at most MaxTail lexemes, then the text that closes the
\* context, or nothing.
Contexts ==
    {<<"", "">>,
     <<"function f(", ") { }">>,
     <<"function f(a) {", "}">>,
     <<"if (a) {", "}">>,
     <<"if (a) { } else {", "}">>,
     <<"while (a) {", "}">>,
     <<"x = f(", ");">>,
     <<"console.log(", ");">>,
     <<"x = a +", ";">>,
     <<"let x", ";">>}

TailLexemes == {"a", ",", ")", "{", "}", ";", "\n", "+"}

Programs ==
    {c[1] \o " " \o Join(" ", t) \o " " \o (IF closed THEN c[2] ELSE "") :
        c \in Contexts, t \in SeqsUpTo(TailLexemes, MaxTail), closed \in BOOLEAN}

Init == Started(Programs)

Spec == Init /\ [][Next]_vars

(***************************************************************************)
(* Claims about the parser, under Spec                                     *)
(***************************************************************************)
\* C2: a top-level parse that returns normally has consumed every token: the
\* cursor stands at the end of the token list.
C2_ParseConsumesAllTokens == pc \in {"parsed", "done"} => pos = Len(tokens)

\* the (type, value) pairs the parser calls expect with
ExpectCalls ==
    {<<"ID", "">>, <<"DOT", "">>, <<"OP", "=">>, <<"PUNCT", ";">>, <<"PUNCT", "(">>,
     <<"PUNCT", ")">>, <<"PUNCT", "{">>, <<"PUNCT", "}">>, <<"ID", "return">>,
     <<"ID", "if">>, <<"ID", "else">>, <<"ID", "while">>, <<"ID", "console">>}

\* C6: whenever expect fails, at any cursor of any token list, the
\* SyntaxError carries the token that stood at the cursor when expect was
\* called (None, the end of input, past the last token).
C6_ExpectReportsFoundToken ==
    pc # "start" =>
        \A i \in 0..Len(tokens), c \in ExpectCalls :
            LET r == expect(tokens, i, c[1], c[2])
            IN  r.exc # None => r.exc.got = current(tokens, i)

\* the index of the first ')' token from i on, or 0
RECURSIVE FirstRightParen(_, _)
FirstRightParen(toks, i) ==
    IF i > Len(toks) THEN 0
    ELSE IF toks[i] = Token("PUNCT", ")") THEN i
    ELSE FirstRightParen(toks, i + 1)

\* toks[lo..hi] is identifier (',' identifier)*, or empty
CommaSeparatedIdentifiers(toks, lo, hi) ==
    IF hi < lo THEN TRUE
    ELSE /\ (hi - lo) % 2 = 0
         /\ \A k \in lo..hi :
               IF (k - lo) % 2 = 0 THEN toks[k].type = "ID"
               ELSE toks[k] = Token("PUNCT", ",")

\* a function header at token i whose parenthesized parameter list is not a
\* comma-separated sequence of identifiers
MalformedParameterList(toks, i) ==
    /\ i + 2 <= Len(toks)
    /\ toks[i] = Token("ID", "function")
    /\ toks[i + 1].type = "ID"
    /\ toks[i + 2] = Token("PUNCT", "(")
    /\ FirstRightParen(toks, i + 3) # 0
    /\ ~CommaSeparatedIdentifiers(toks, i + 3, FirstRightParen(toks, i + 3) - 1)

\* C7: a program holding a function declaration whose parameter list is
\* malformed (two identifiers without a comma, a comma without an identifier
\* behind it) is not accepted: the parse does not return.
C7_MalformedParametersRejected ==
    pc \in {"parsed", "done"} =>
        \A i \in 1..Len(tokens) : ~MalformedParameterList(tokens, i)

\* what a parser method may do, called with the cursor at i: return or raise
\* SyntaxError, with the cursor not behind i and not beyond the end
CursorAdvances(r, i) ==
    /\ r.exc.type \in {"None", "SyntaxError"}
    /\ i <= r.pos
    /\ r.pos <= Len(tokens)

\* C10: the parser terminates on every token list, returning or raising
\* SyntaxError; the cursor stays within 0..len(tokens) and no parsing loop,
\* entered at any cursor, runs for ever or moves the cursor back.
C10_ParserTerminates ==
    /\ pos \in 0..Len(tokens)
    /\ pc # "diverged"
    /\ pc = "failed" => exc.type = "SyntaxError"
    /\ pc = "lexed" =>
         \A i \in 0..Len(tokens) :
            /\ CursorAdvances(parse_loop(tokens, i, <<>>), i)
            /\ CursorAdvances(parse_statement(tokens, i), i)
            /\ CursorAdvances(function_parameters(tokens, i, <<>>), i)
            /\ CursorAdvances(function_body(tokens, i, <<>>), i)
            /\ CursorAdvances(block_statements(tokens, i, <<>>), i)
            /\ CursorAdvances(console_arguments(tokens, i), i)
            /\ CursorAdvances(call_arguments(tokens, i, <<>>), i)
            /\ CursorAdvances(parse_expression(tokens, i), i)
            /\ CursorAdvances(parse_equality(tokens, i), i)
            /\ CursorAdvances(parse_atom(tokens, i), i)

\* C10's case: a parse that returned after its loops ran: a function whose
\* parameter loop and body loop each took a turn
C10_Witness ==
    /\ pc = "parsed"
    /\ pos = Len(tokens)
    /\ Len(ast) = 1
    /\ ast[1].type = "FunctionDeclaration"
    /\ Len(ast[1].params) + Len(ast[1].body) >= 1

(***************************************************************************)
(* The lexer's family: every text of at most MaxLexLen fragments           *)
(***************************************************************************)
\* an identifier, a quote, the escape \n, a character of no lexical
\* category, the statement's end, a blank
LexFragments == {"a", "\"", "\\n", "@", ";", " "}

LexTexts == {Join("", f) : f \in SeqsUpTo(LexFragments, MaxLexLen)}

InitLex == Started(LexTexts)

SpecLex == InitLex /\ [][Next]_vars

\* the scan of tokenize from i on meets a position where no category matches
RECURSIVE HasUnmatched(_, _)
HasUnmatched(s, i) ==
    IF i > Len(s) THEN FALSE
    ELSE IF MatchAt(s, i).kind = "NOMATCH" THEN TRUE
    ELSE HasUnmatched(s, MatchAt(s, i).last + 1)

\* C1: a text with a character that matches no lexical category is not
\* tokenized: the run fails with a LexError, no token list is returned.
C1_UnmatchedCharacterIsLexError ==
    (pc # "start" /\ HasUnmatched(code, 1)) => (pc = "failed" /\ exc.type = "LexError")

\* C5: a string literal written with the escape \n (the text holds no raw
\* newline) is rendered without a raw newline character, on one line.
C5_EscapedNewlineStaysEscaped ==
    (pc = "done" /\ FindChar(code, 1, "\n") = 0) =>
        \A i \in 1..Len(ast) :
            ast[i].type = "StringLiteral" => FindChar(out[i], 1, "\n") = 0

(***************************************************************************)
(* The expression family: atom (operator atom)*, at most MaxOps operators, *)
(* as an expression statement                                              *)
(***************************************************************************)
BinaryOperators == {"*", "/", "+", "-", "<", ">", "<=", ">=", "==", "!="}

FirstAtoms == {"a", "5", "(b - c)", "(d)"}

MoreAtoms == {"b", "7"}

\* the texts atom1 op1 atom2 ... of k operators
RECURSIVE Chains(_)
Chains(k) ==
    IF k = 0 THEN FirstAtoms
    ELSE {c \o " " \o op \o " " \o atom :
             c \in Chains(k - 1), op \in BinaryOperators \cup {"="}, atom \in MoreAtoms}

ExpressionTexts ==
    {c \o ";" : c \in UNION {Chains(k) : k \in 0..MaxOps}} \cup {"let x = 5 + 3;"}

InitExpr == Started(ExpressionTexts)

SpecExpr == InitExpr /\ [][Next]_vars

\* the binding strength of a binary operator
Precedence(op) ==
    CASE op \in {"*", "/"} -> 4
      [] op \in {"+", "-"} -> 3
      [] op \in {"<", ">", "<=", ">="} -> 2
      [] op \in {"==", "!="} -> 1
      [] OTHER -> 0

\* the number of '(' not yet closed in toks[lo..k-1]
RECURSIVE ParenDepth(_, _, _)
ParenDepth(toks, lo, k) ==
    IF k <= lo THEN 0
    ELSE ParenDepth(toks, lo, k - 1)
         + (IF toks[k - 1] = Token("PUNCT", "(") THEN 1
            ELSE IF toks[k - 1] = Token("PUNCT", ")") THEN -1 ELSE 0)

\* the operators of toks[lo..hi] outside every parenthesis
TopOperators(toks, lo, hi) ==
    {k \in lo..hi : toks[k].type = "OP" /\ ParenDepth(toks, lo, k) = 0}

\* where the reference grouping splits toks[lo..hi]: at the last of its
\* weakest operators outside parentheses (left-associative levels)
SplitAt(toks, lo, hi) ==
    LET tops == TopOperators(toks, lo, hi)
        weakest == {k \in tops :
                       \A j \in tops : Precedence(toks[k].value) <= Precedence(toks[j].value)}
    IN  CHOOSE k \in weakest : \A j \in weakest : j <= k

\* the fully parenthesized text of the reference grouping of toks[lo..hi]; an
\* integer literal n reads n.0 as a float
RECURSIVE Grouped(_, _, _)
Grouped(toks, lo, hi) ==
    IF TopOperators(toks, lo, hi) # {}
    THEN "(" \o Grouped(toks, lo, SplitAt(toks, lo, hi) - 1)
             \o " " \o toks[SplitAt(toks, lo, hi)].value \o " "
             \o Grouped(toks, SplitAt(toks, lo, hi) + 1, hi) \o ")"
    ELSE IF toks[lo] = Token("PUNCT", "(") THEN Grouped(toks, lo + 1, hi - 1)
    ELSE IF toks[lo].type = "NUMBER" THEN toks[lo].value \o ".0"
    ELSE toks[lo].value

\* toks is an expression of atoms and binary operators, ended by ';'
BinaryExpressionStatement(toks) ==
    /\ Len(toks) >= 2
    /\ toks[Len(toks)] = Token("PUNCT", ";")
    /\ toks[1] # Token("ID", "let")
    /\ \A k \in 1..Len(toks) : toks[k].type = "OP" => toks[k].value \in BinaryOperators

\* C4: an expression of atoms and binary operators is accepted and rendered
\* as the fully parenthesized text of the reference grouping (the four
\* precedence levels, each left-associative); 'let x = 5 + 3;' is rendered
\* 'x = (5.0 + 3.0)'.
C4_RenderedGroupingIsReference ==
    /\ (pc \in {"failed", "diverged"}) => ~BinaryExpressionStatement(tokens)
    /\ (pc = "done" /\ BinaryExpressionStatement(tokens)) =>
           out = <<Grouped(tokens, 1, Len(tokens) - 1)>>
    /\ (pc = "done" /\ code = "let x = 5 + 3;") => out = <<"x = (5.0 + 3.0)">>

\* C4's case: an expression of two operators of two levels was rendered
C4_Witness ==
    /\ pc = "done"
    /\ code = "a - b * 7;"
    /\ out = <<"(a - (b * 7.0))">>

\* every Assignment below the node has an Identifier as its target
RECURSIVE TargetsAreIdentifiers(_)
TargetsAreIdentifiers(node) ==
    CASE node.type = "Assignment" ->
            node.left.type = "Identifier" /\ TargetsAreIdentifiers(node.right)
      [] node.type = "BinaryOp" ->
            TargetsAreIdentifiers(node.left) /\ TargetsAreIdentifiers(node.right)
      [] node.type = "CallExpression" ->
            \A i \in 1..Len(node.arguments) : TargetsAreIdentifiers(node.arguments[i])
      [] node.type = "VariableDeclaration" -> TargetsAreIdentifiers(node.value)
      [] OTHER -> TRUE

\* toks[a..b] is an identifier, or one in parentheses
RECURSIVE ReducesToIdentifier(_, _, _)
ReducesToIdentifier(toks, a, b) ==
    IF a > b THEN FALSE
    ELSE IF a = b THEN toks[a].type = "ID"
    ELSE /\ toks[a] = Token("PUNCT", "(")
         /\ toks[b] = Token("PUNCT", ")")
         /\ ReducesToIdentifier(toks, a + 1, b - 1)

\* the '=' operators of toks[lo..hi] outside every parenthesis
TopAssignments(toks, lo, hi) ==
    {k \in TopOperators(toks, lo, hi) : toks[k].value = "="}

\* the first token of the expression to the left of the '=' at k
TargetStart(toks, lo, hi, k) ==
    IF \E j \in TopAssignments(toks, lo, hi) : j < k
    THEN 1 + CHOOSE j \in TopAssignments(toks, lo, hi) :
                 j < k /\ \A i \in TopAssignments(toks, lo, hi) : i < k => i <= j
    ELSE lo

\* an expression statement with an '=' whose left side is no identifier
HasInvalidTarget(toks) ==
    /\ Len(toks) >= 2
    /\ toks[1] # Token("ID", "let")
    /\ \E k \in TopAssignments(toks, 1, Len(toks) - 1) :
          ~ReducesToIdentifier(toks, TargetStart(toks, 1, Len(toks) - 1, k), k - 1)

\* C9: every Assignment of a returned tree has an Identifier as its target;
\* an '=' whose left side does not reduce to an Identifier fails the run with
\* SyntaxError "Invalid assignment target"; and '=' groups to the right: the
\* value of 'a = ...' is all that follows the '='.
C9_AssignmentTargetIsIdentifier ==
    /\ pc \in {"parsed", "done"} => \A i \in 1..Len(ast) : TargetsAreIdentifiers(ast[i])
    /\ (pc \notin {"start", "lexed"} /\ HasInvalidTarget(tokens)) =>
          /\ pc = "failed"
          /\ exc = SyntaxError("Invalid assignment target", None, None)
    /\ (pc \in {"parsed", "done"} /\ At(tokens, 1, "OP", "=")
          /\ tokens[1].type = "ID" /\ tokens[1].value # "let") =>
          ast = <<Assignment(Identifier(tokens[1].value), parse_expression(tokens, 2).val)>>
    /\ (pc \in {"parsed", "done"} /\ code = "a = b = 7;") =>
          ast = <<Assignment(Identifier("a"),
                             Assignment(Identifier("b"), NumberLiteral(float("7"))))>>

\* C9's case: an assignment to a literal was refused
C9_Witness ==
    /\ pc = "failed"
    /\ code = "5 = b;"
    /\ exc.msg = "Invalid assignment target"

\* a chain of two assignments was accepted and grouped to the right
C9_RightAssociativeReached ==
    /\ pc = "parsed"
    /\ code = "a = b = 7;"
    /\ ast[1].right.type = "Assignment"

(***************************************************************************)
(* The transformer's family: the trees of function, if and while           *)
(* statements nested at most MaxDepth deep, as the parser builds them for  *)
(* 'function f() { ... }', 'if (c) { ... } else { ... }', 'while (c) {     *)
(* ... }' and the expression statement 'x;'.  A block holds at most        *)
(* MaxBlock statements, at most one of them with a block of its own.  A    *)
(* run starts with the tree parsed and applies transform_node.             *)
(***************************************************************************)
Leaf == Identifier("x")

Condition == Identifier("c")

LeafBlocks(n) == SeqsUpTo({Leaf}, n)

\* block b with statement s put in as its k-th statement
Inserted(b, k, s) == SubSeq(b, 1, k - 1) \o <<s>> \o SubSeq(b, k, Len(b))

BlocksOver(S) ==
    LeafBlocks(MaxBlock)
    \cup UNION {{Inserted(b, k, s) : k \in 1..(Len(b) + 1), s \in S} :
                   b \in LeafBlocks(MaxBlock - 1)}

WithBlock(b) ==
    {FunctionDeclaration("f", <<>>, b), WhileStatement(Condition, b),
     IfStatement(Condition, b, None), IfStatement(Condition, b, SomeList(<<>>)),
     IfStatement(Condition, b, SomeList(<<Leaf>>)), IfStatement(Condition, b, SomeList(b))}

RECURSIVE StatementsOfDepth(_)
StatementsOfDepth(d) ==
    IF d = 0 THEN {Leaf}
    ELSE {Leaf} \cup UNION {WithBlock(b) : b \in BlocksOver(StatementsOfDepth(d - 1))}

Trees == {s \in StatementsOfDepth(MaxDepth) : s # Leaf}

InitTree ==
    /\ code = ""
    /\ tokens = <<>>
    /\ pos = 0
    /\ ast \in {<<s>> : s \in Trees}
    /\ out = <<>>
    /\ exc = None
    /\ pc = "parsed"

NextTree == Transform

SpecTree == InitTree /\ [][NextTree]_vars

\* text.split("\n")
RECURSIVE SplitLines(_)
SplitLines(text) ==
    IF FindChar(text, 1, "\n") = 0 THEN <<text>>
    ELSE <<Slice(text, 1, FindChar(text, 1, "\n") - 1)>>
         \o SplitLines(Slice(text, FindChar(text, 1, "\n") + 1, Len(text)))

\* the number of spaces a line starts with
LeadingSpaces(line) == RunEnd(line, 1, {" "})

\* the nesting depth of each line of a statement that sits at depth d: its
\* header at d, the lines of its blocks one deeper, 'else:' at d again; an
\* empty block has the one line of its placeholder
RECURSIVE LineDepths(_, _), BlockDepths(_, _, _)
LineDepths(node, d) ==
    CASE node.type \in {"FunctionDeclaration", "WhileStatement"} ->
            <<d>> \o BlockDepths(node.body, 1, d + 1)
      [] node.type = "IfStatement" ->
            <<d>> \o BlockDepths(node.consequent, 1, d + 1)
                \o (IF node.alternate # None
                    THEN <<d>> \o BlockDepths(node.alternate.items, 1, d + 1)
                    ELSE <<>>)
      [] OTHER -> <<d>>

BlockDepths(block, i, d) ==
    IF block = <<>> THEN <<d>>
    ELSE IF i > Len(block) THEN <<>>
    ELSE LineDepths(block[i], d) \o BlockDepths(block, i + 1, d)

\* the lines of the text are indented to the depths given
IndentedTo(lines, depths) ==
    /\ Len(lines) = Len(depths)
    /\ \A j \in 1..Len(lines) : LeadingSpaces(lines[j]) = 4 * depths[j]

\* C3: every rendered line of a statement at nesting depth d starts with
\* exactly d indent units of four spaces, the second and later lines of a
\* nested statement included.
C3_EveryLineIndentedToItsDepth ==
    pc = "done" =>
        \A i \in 1..Len(ast) : IndentedTo(SplitLines(out[i]), LineDepths(ast[i], 0))

\* a header line ends with ':'
IsHeader(line) == line # "" /\ Char(line, Len(line)) = ":"

\* every header of the lines is followed by a line of its block
HeadersHaveBlocks(lines) ==
    \A j \in 1..Len(lines) :
        IsHeader(lines[j]) =>
            /\ j < Len(lines)
            /\ ~IsHeader(lines[j + 1]) \/ LeadingSpaces(lines[j + 1]) > 0

\* the rendering of a node with a block, as lines, obeys the policy: an empty
\* body, consequent or alternate is the one line '    pass' behind its header
PassForEmpty(node, lines) ==
    CASE node.type \in {"FunctionDeclaration", "WhileStatement"} ->
            node.body = <<>> => (Len(lines) = 2 /\ lines[2] = "    pass")
      [] node.type = "IfStatement" ->
            /\ node.consequent = <<>> =>
                  /\ Len(lines) >= 2 /\ lines[2] = "    pass"
                  /\ IF node.alternate = None THEN Len(lines) = 2
                     ELSE Len(lines) >= 4 /\ lines[3] = "else:"
            /\ (node.alternate # None /\ node.alternate.items = <<>>) =>
                  /\ Len(lines) >= 4
                  /\ lines[Len(lines)] = "    pass"
                  /\ lines[Len(lines) - 1] = "else:"
      [] OTHER -> TRUE

\* the blocks of a node, one after the other
BlocksOf(node) ==
    CASE node.type \in {"FunctionDeclaration", "WhileStatement"} -> node.body
      [] node.type = "IfStatement" ->
            node.consequent
                \o (IF node.alternate # None THEN node.alternate.items ELSE <<>>)
      [] OTHER -> <<>>

\* the policy holds of the node's own rendering and of every statement below
RECURSIVE EmptyBlockPolicy(_)
EmptyBlockPolicy(node) ==
    /\ PassForEmpty(node, SplitLines(transform_node(node)))
    /\ HeadersHaveBlocks(SplitLines(transform_node(node)))
    /\ \A i \in 1..Len(BlocksOf(node)) : EmptyBlockPolicy(BlocksOf(node)[i])

====
